---- MODULE Spec2Model ----
(***************************************************************************)
(* Model of src/charm.py: the QBittorrentConfig store (a case-sensitive    *)
(* configparser.ConfigParser over one INI file) and the two lifecycle      *)
(* handlers of QbittorrentOperatorCharm that write that file.              *)
(*                                                                         *)
(* Text is modelled as sequences of one-character strings, bytes as        *)
(* sequences of 0..255, and the INI file as a sequence of lines, each a    *)
(* record [t, name, sep, val]:                                             *)
(*   t = "sec"     the header line  [name]                                 *)
(*   t = "opt"     the line  name sep val   (sep is "=", " = " or ": ")    *)
(*   t = "bare"    a line with no delimiter                                *)
(*   t = "comment" a full-line comment,  t = "blank" an empty line         *)
(* Values never hold a line break in this model, so continuation lines do  *)
(* not occur.                                                              *)
(***************************************************************************)
EXTENDS Integers, Sequences, FiniteSets, TLC

VARIABLES
  file,       \* the backing file: [exists, lines]
  conf,       \* the QBittorrentConfig object in hand: [live, doc]
  prev,       \* conf and file as they were before the last operation
  last,       \* the last operation, its arguments and the exception it raised
  trail,      \* the kinds of the last three operations, oldest first
  installed,  \* the file as the last completed install event left it
  nops        \* operations performed so far

vars == <<file, conf, prev, last, trail, installed, nops>>

----------------------------------------------------------------------------
(* Bounds of the model *)

\* Operations of the store a run performs at most.
MaxOps == 4

\* Lifecycle events a run delivers at most.
MaxEvents == 3

----------------------------------------------------------------------------
(* Text helpers *)

RECURSIVE StripLeft(_)
StripLeft(s) ==
  IF s # <<>> /\ Head(s) \in {" ", "\t"} THEN StripLeft(Tail(s)) ELSE s

RECURSIVE StripRight(_)
StripRight(s) ==
  IF s # <<>> /\ s[Len(s)] \in {" ", "\t"}
  THEN StripRight(SubSeq(s, 1, Len(s) - 1))
  ELSE s

\* str.strip()
Strip(s) == StripRight(StripLeft(s))

Digits == <<"0", "1", "2", "3", "4", "5", "6", "7", "8", "9">>

DigitVal(c) == CHOOSE d \in 0..9 : Digits[d + 1] = c

IsDigit(c) == \E d \in 1..10 : Digits[d] = c

RECURSIVE NatToStr(_)
NatToStr(n) ==
  IF n < 10 THEN <<Digits[n + 1]>>
  ELSE Append(NatToStr(n \div 10), Digits[(n % 10) + 1])

\* str(port) of an int
IntToStr(n) == IF n < 0 THEN <<"-">> \o NatToStr(0 - n) ELSE NatToStr(n)

RECURSIVE DigitsToNat(_)
DigitsToNat(s) ==
  IF s = <<>> THEN 0
  ELSE 10 * DigitsToNat(SubSeq(s, 1, Len(s) - 1)) + DigitVal(s[Len(s)])

\* int(text): surrounding whitespace is ignored, one sign is allowed, the rest
\* must be decimal digits; anything else is a ValueError.  (No input of the
\* model holds "_", which int() also accepts between digits.)
ParseInt(text) ==
  LET t == Strip(text)
      signed == t # <<>> /\ Head(t) \in {"+", "-"}
      body == IF signed THEN Tail(t) ELSE t
      good == body # <<>> /\ \A i \in 1..Len(body) : IsDigit(body[i])
  IN IF ~good THEN [ok |-> FALSE, val |-> 0]
     ELSE [ok |-> TRUE,
           val |-> IF signed /\ Head(t) = "-" THEN 0 - DigitsToNat(body)
                   ELSE DigitsToNat(body)]

----------------------------------------------------------------------------
(* configparser.ConfigParser as QBittorrentConfig uses it: strict, basic     *)
(* interpolation, "=" and ":" delimiters, "#" and ";" comments, the default  *)
(* section DEFAULT, and optionxform replaced by str.                         *)

DEFAULTSECT == "DEFAULT"

EmptyDoc == [defaults |-> <<>>, sections |-> <<>>]

NoFile == [exists |-> FALSE, lines |-> <<>>]

\* The lower-casing optionxform of the library, over the option names in use.
lower_optionxform(option) ==
  CASE option = "Port" -> "port"
    [] option = "MigrationVersion" -> "migrationversion"
    [] OTHER -> option

\* self.config.optionxform = str
optionxform(option) == option

SecLine(name) == [t |-> "sec", name |-> name, sep |-> "", val |-> <<>>]

OptLine(key, sep, val) == [t |-> "opt", name |-> key, sep |-> sep, val |-> val]

BareLine(text) == [t |-> "bare", name |-> text, sep |-> "", val |-> <<>>]

BlankLine == [t |-> "blank", name |-> "", sep |-> "", val |-> <<>>]

CommentLine == [t |-> "comment", name |-> "", sep |-> "", val |-> <<>>]

\* dict.__setitem__ on an insertion-ordered dict of option -> value
DictSet(items, k, v) ==
  IF \E i \in 1..Len(items) : items[i].k = k
  THEN [i \in 1..Len(items) |->
          IF items[i].k = k THEN [k |-> k, v |-> v] ELSE items[i]]
  ELSE Append(items, [k |-> k, v |-> v])

DictHas(items, k) == \E i \in 1..Len(items) : items[i].k = k

DictGet(items, k) == items[CHOOSE i \in 1..Len(items) : items[i].k = k].v

has_section(doc, section) ==
  \E i \in 1..Len(doc.sections) : doc.sections[i].name = section

SectionIndex(doc, section) ==
  CHOOSE i \in 1..Len(doc.sections) : doc.sections[i].name = section

SectionItems(doc, section) == doc.sections[SectionIndex(doc, section)].items

\* Index of the first "%" of s; 0 if there is none.
FirstPercent(s) ==
  IF \E i \in 1..Len(s) : s[i] = "%"
  THEN CHOOSE i \in 1..Len(s) : s[i] = "%" /\ \A j \in 1..(i - 1) : s[j] # "%"
  ELSE 0

\* value.replace('%%', ''): pairs are removed from left to right
RECURSIVE RemoveEscapedPercent(_)
RemoveEscapedPercent(s) ==
  LET i == FirstPercent(s)
  IN IF i = 0 THEN s
     ELSE IF i < Len(s) /\ s[i + 1] = "%"
     THEN SubSeq(s, 1, i - 1) \o RemoveEscapedPercent(SubSeq(s, i + 2, Len(s)))
     ELSE SubSeq(s, 1, i) \o RemoveEscapedPercent(SubSeq(s, i + 1, Len(s)))

\* Length of the match of _KEYCRE, %\(([^)]+)\)s, at the start of s; 0 if none.
KeyMatchLen(s) ==
  IF Len(s) >= 5 /\ s[1] = "%" /\ s[2] = "(" /\ s[3] # ")"
     /\ \E j \in 4..Len(s) : s[j] = ")"
  THEN LET j == CHOOSE j \in 4..Len(s) :
                  s[j] = ")" /\ \A i \in 4..(j - 1) : s[i] # ")"
       IN IF j < Len(s) /\ s[j + 1] = "s" THEN j + 1 ELSE 0
  ELSE 0

\* _KEYCRE.sub('', value): matches are removed from left to right
RECURSIVE RemoveKeys(_)
RemoveKeys(s) ==
  IF \E i \in 1..Len(s) : s[i] = "%" /\ KeyMatchLen(SubSeq(s, i, Len(s))) > 0
  THEN LET i == CHOOSE i \in 1..Len(s) :
                  /\ s[i] = "%" /\ KeyMatchLen(SubSeq(s, i, Len(s))) > 0
                  /\ \A j \in 1..(i - 1) :
                       s[j] = "%" => KeyMatchLen(SubSeq(s, j, Len(s))) = 0
           n == KeyMatchLen(SubSeq(s, i, Len(s)))
       IN SubSeq(s, 1, i - 1) \o RemoveKeys(SubSeq(s, i + n, Len(s)))
  ELSE s

\* BasicInterpolation.before_set: a "%" that is neither "%%" nor the start of
\* "%(name)s" is a ValueError.
before_set(value) ==
  LET tmp == RemoveKeys(RemoveEscapedPercent(value))
  IN \A i \in 1..Len(tmp) : tmp[i] # "%"

\* RawConfigParser.add_section on machine state m = [doc, file, exc]
add_section(m, section) ==
  IF section = DEFAULTSECT THEN [m EXCEPT !.exc = "ValueError"]
  ELSE IF has_section(m.doc, section)
       THEN [m EXCEPT !.exc = "DuplicateSectionError"]
  ELSE [m EXCEPT !.doc.sections =
          Append(@, [name |-> section, items |-> <<>>])]

\* ConfigParser.set: the value is validated by the interpolation, then stored
\* in the defaults when the section is empty or DEFAULT, else in the section.
config_set(m, section, option, value) ==
  IF value # <<>> /\ ~before_set(value) THEN [m EXCEPT !.exc = "ValueError"]
  ELSE IF section = "" \/ section = DEFAULTSECT
       THEN [m EXCEPT !.doc.defaults = DictSet(@, optionxform(option), value)]
  ELSE IF ~has_section(m.doc, section)
       THEN [m EXCEPT !.exc = "NoSectionError"]
  ELSE [m EXCEPT !.doc.sections[SectionIndex(m.doc, section)].items =
          DictSet(@, optionxform(option), value)]

\* One line of RawConfigParser._read.  st = [doc, cur, seen, exc, bad]: cur is
\* <<>> before the first header, else <<name>>; seen is elements_added; bad
\* says a ParsingError is pending (it is raised after the last line).
read_line(st, line) ==
  IF st.exc # "none" \/ line.t \in {"blank", "comment"} THEN st
  ELSE IF line.t = "sec" /\ line.name # ""
  THEN IF has_section(st.doc, line.name)
       THEN [st EXCEPT !.exc = "DuplicateSectionError"]
       ELSE IF line.name = DEFAULTSECT
       THEN [st EXCEPT !.cur = <<DEFAULTSECT>>]
       ELSE [st EXCEPT !.cur = <<line.name>>,
                       !.doc.sections =
                          Append(@, [name |-> line.name, items |-> <<>>])]
  ELSE IF st.cur = <<>> THEN [st EXCEPT !.exc = "MissingSectionHeaderError"]
  ELSE IF line.t = "opt"
  THEN LET sect == st.cur[1]
           opt == optionxform(line.name)
           val == Strip(line.val)
       IN IF <<sect, opt>> \in st.seen
          THEN [st EXCEPT !.exc = "DuplicateOptionError"]
          ELSE IF sect = DEFAULTSECT
          THEN [st EXCEPT !.seen = @ \cup {<<sect, opt>>},
                          !.doc.defaults = DictSet(@, opt, val)]
          ELSE [st EXCEPT !.seen = @ \cup {<<sect, opt>>},
                          !.doc.sections[SectionIndex(st.doc, sect)].items =
                             DictSet(@, opt, val)]
  ELSE [st EXCEPT !.bad = TRUE]

RECURSIVE read_lines(_, _)
read_lines(st, lines) ==
  IF lines = <<>> THEN st ELSE read_lines(read_line(st, Head(lines)), Tail(lines))

\* A read that fails on a file that cannot be opened, as open() does.
read_or_raise(f) ==
  IF ~f.exists THEN [doc |-> EmptyDoc, exc |-> "FileNotFoundError"]
  ELSE LET st == read_lines([doc |-> EmptyDoc, cur |-> <<>>, seen |-> {},
                            exc |-> "none", bad |-> FALSE], f.lines)
       IN [doc |-> st.doc,
           exc |-> IF st.exc # "none" THEN st.exc
                   ELSE IF st.bad THEN "ParsingError" ELSE "none"]

\* ConfigParser.read(file) on a fresh parser: a file that cannot be opened is
\* skipped.  The result is [doc, exc].
read(f) ==
  IF ~f.exists THEN [doc |-> EmptyDoc, exc |-> "none"]
  ELSE LET st == read_lines([doc |-> EmptyDoc, cur |-> <<>>, seen |-> {},
                            exc |-> "none", bad |-> FALSE], f.lines)
       IN [doc |-> st.doc,
           exc |-> IF st.exc # "none" THEN st.exc
                   ELSE IF st.bad THEN "ParsingError" ELSE "none"]

\* The items written with the library's default padding, " = ".
RECURSIVE padded_write_items(_)
padded_write_items(items) ==
  IF items = <<>> THEN <<>>
  ELSE <<OptLine(Head(items).k, " = ", Head(items).v)>>
         \o padded_write_items(Tail(items))

\* RawConfigParser._write_section with delimiter "=" and no padding
RECURSIVE write_items(_)
write_items(items) ==
  IF items = <<>> THEN <<>>
  ELSE <<OptLine(Head(items).k, "=", Head(items).v)>> \o write_items(Tail(items))

write_section(name, items) == <<SecLine(name)>> \o write_items(items) \o <<BlankLine>>

RECURSIVE write_sections(_)
write_sections(sections) ==
  IF sections = <<>> THEN <<>>
  ELSE write_section(Head(sections).name, Head(sections).items)
         \o write_sections(Tail(sections))

\* A write that leaves the defaults out.
write_without_defaults(doc) == write_sections(doc.sections)

\* ConfigParser.write(fp, space_around_delimiters=False): the defaults first,
\* when there are any, then every section in order.
write(doc) ==
  (IF doc.defaults # <<>> THEN write_section(DEFAULTSECT, doc.defaults) ELSE <<>>)
    \o write_sections(doc.sections)

----------------------------------------------------------------------------
(* Bytes, base64 and the key derivation of set_web_password *)

B64Alphabet ==
  <<"A", "B", "C", "D", "E", "F", "G", "H", "I", "J", "K", "L", "M",
    "N", "O", "P", "Q", "R", "S", "T", "U", "V", "W", "X", "Y", "Z",
    "a", "b", "c", "d", "e", "f", "g", "h", "i", "j", "k", "l", "m",
    "n", "o", "p", "q", "r", "s", "t", "u", "v", "w", "x", "y", "z",
    "0", "1", "2", "3", "4", "5", "6", "7", "8", "9", "+", "/">>

B64Char(n) == B64Alphabet[n + 1]

\* base64.b64encode(bytes).decode(): standard alphabet, "=" padding
RECURSIVE b64encode(_)
b64encode(b) ==
  IF b = <<>> THEN <<>>
  ELSE IF Len(b) = 1
  THEN <<B64Char(b[1] \div 4), B64Char((b[1] % 4) * 16), "=", "=">>
  ELSE IF Len(b) = 2
  THEN <<B64Char(b[1] \div 4), B64Char((b[1] % 4) * 16 + b[2] \div 16),
         B64Char((b[2] % 16) * 4), "=">>
  ELSE <<B64Char(b[1] \div 4), B64Char((b[1] % 4) * 16 + b[2] \div 16),
         B64Char((b[2] % 16) * 4 + b[3] \div 64), B64Char(b[3] % 64)>>
         \o b64encode(SubSeq(b, 4, Len(b)))

\* The UTF-8 byte of a character; every character of the model is ASCII.
Utf8Byte(c) ==
  CASE c = "a" -> 97 [] c = "b" -> 98 [] c = "p" -> 112 [] c = "w" -> 119
    [] c = "u" -> 117 [] c = "%" -> 37 [] c = " " -> 32 [] OTHER -> 63

\* password.encode()
encode(text) == [i \in 1..Len(text) |-> Utf8Byte(text[i])]

RECURSIVE ByteSum(_)
ByteSum(b) == IF b = <<>> THEN 0 ELSE (Head(b) + 3 * ByteSum(Tail(b))) % 65521

\* The output length of SHA-512 in bytes.
Sha512DigestSize == 64

\* hashlib.pbkdf2_hmac("sha512", password, salt, iterations) with the default
\* dklen: a derived key of the digest's size.  SHA-512 itself is not computed;
\* the bytes are a fixed function of (password, salt, iterations) that stands
\* for it.
pbkdf2_hmac_sha512(password, salt, iterations) ==
  LET mix == (ByteSum(password) * 31 + ByteSum(salt) * 17 + iterations) % 65521
  IN [i \in 1..Sha512DigestSize |-> (mix + 7 * i) % 256]

\* Seeds of the random byte strings the model draws.
SaltSeeds == {7, 200}

\* secrets.token_bytes(n): the byte strings of length n it may return
token_bytes(n) == {[i \in 1..n |-> (seed + 13 * i) % 256] : seed \in SaltSeeds}

salt_length == 16

iterations == 100000

\* The marker value with the two blocks in the wrong order.
swapped_byte_array_value(salt, hash) ==
  <<"@", "B", "y", "t", "e", "A", "r", "r", "a", "y", "(">>
    \o b64encode(hash) \o <<":">> \o b64encode(salt) \o <<")">>

\* f"@ByteArray({b64(salt)}:{b64(hash)})"
byte_array_value(salt, hash) ==
  <<"@", "B", "y", "t", "e", "A", "r", "r", "a", "y", "(">>
    \o b64encode(salt) \o <<":">> \o b64encode(hash) \o <<")">>

----------------------------------------------------------------------------
(* QBittorrentConfig.  Its methods act on a machine state                    *)
(* m = [doc, file, exc]: the parser's content, the backing file and the      *)
(* exception raised so far ("none" when none); once one is raised the rest   *)
(* of the calling code is skipped.                                           *)

\* QBittorrentConfig.__init__
QBittorrentConfig(f) == LET r == read(f) IN [doc |-> r.doc, file |-> f, exc |-> r.exc]

\* QBittorrentConfig.set
set(m, section, option, value) ==
  IF m.exc # "none" THEN m
  ELSE LET m1 == IF has_section(m.doc, section) THEN m
                 ELSE add_section(m, section)
       IN IF m1.exc # "none" THEN m1
          ELSE config_set(m1, section, option, value)

\* A setup that writes the three keys of the unit test only.
setup_three_keys(m) ==
  set(set(set(m, "LegalNotice", "Accepted", <<"t", "r", "u", "e">>),
            "Meta", "MigrationVersion", <<"3">>),
       "Preferences", "WebUI\\Address", <<"*">>)

\* QBittorrentConfig.setup
setup(m) ==
  LET m1 == set(m, "LegalNotice", "Accepted", <<"t", "r", "u", "e">>)
      m2 == set(m1, "Meta", "MigrationVersion", <<"3">>)
      m3 == set(m2, "Preferences", "WebUI\\Address", <<"*">>)
      m4 == set(m3, "BitTorrent", "Session\\AddExtensionToIncompleteFiles",
                 <<"t", "r", "u", "e">>)
  IN set(m4, "BitTorrent", "Session\\DefaultSavePath", <<"/", "s", "r", "v">>)

\* QBittorrentConfig.save: open("w+") truncates or creates, then write
save(m) ==
  IF m.exc # "none" THEN m
  ELSE [m EXCEPT !.file = [exists |-> TRUE, lines |-> write(m.doc)]]

\* QBittorrentConfig.set_web_port
set_web_port(m, port, saving) ==
  LET m1 == set(m, "Preferences", "WebUI\\Port", IntToStr(port))
  IN IF saving THEN save(m1) ELSE m1

\* QBittorrentConfig.set_web_username
set_web_username(m, username, saving) ==
  LET m1 == set(m, "Preferences", "WebUI\\Username", username)
  IN IF saving THEN save(m1) ELSE m1

\* QBittorrentConfig.set_web_password, with the salt token_bytes returned
set_web_password(m, password, salt, saving) ==
  LET hash == pbkdf2_hmac_sha512(encode(password), salt, iterations)
      m1 == set(m, "Preferences", "WebUI\\Password_PBKDF2",
                 byte_array_value(salt, hash))
  IN IF saving THEN save(m1) ELSE m1

\* QBittorrentConfig.set_bittorrent_interface
set_bittorrent_interface(m, interface, saving) ==
  LET m1 == set(m, "BitTorrent", "Session\\Interface", interface)
      m2 == set(m1, "BitTorrent", "Session\\InterfaceName", interface)
  IN IF saving THEN save(m2) ELSE m2

----------------------------------------------------------------------------
(* QbittorrentOperatorCharm: the two handlers that write the file.  cfg is   *)
(* the configuration snapshot [port, user, password, iface]; the package,   *)
(* user, service and ownership steps act outside the file and are left out.  *)

\* CONFIG_PATH.touch()
touch(f) == [exists |-> TRUE, lines |-> f.lines]

\* A config-changed that writes a fresh document instead of loading the file.
on_config_changed_from_scratch(f, cfg) ==
  LET p == ParseInt(cfg.port)
      m0 == [doc |-> EmptyDoc, file |-> f, exc |-> "none"]
  IN IF ~p.ok THEN [m0 EXCEPT !.exc = "ValueError"]
     ELSE set_bittorrent_interface(set_web_port(m0, p.val, TRUE), cfg.iface, TRUE)

\* _on_config_changed
on_config_changed(f, cfg) ==
  LET m0 == QBittorrentConfig(f)
      p == ParseInt(cfg.port)
  IN IF m0.exc # "none" THEN m0
     ELSE IF ~p.ok THEN [m0 EXCEPT !.exc = "ValueError"]
     ELSE set_bittorrent_interface(set_web_port(m0, p.val, TRUE), cfg.iface, TRUE)

\* _on_install, with the salt token_bytes returned
on_install(f, cfg, salt) ==
  LET f1 == touch(f)
      p == ParseInt(cfg.port)
      m0 == QBittorrentConfig(f1)
  IN IF ~p.ok THEN [doc |-> EmptyDoc, file |-> f1, exc |-> "ValueError"]
     ELSE IF m0.exc # "none" THEN m0
     ELSE LET m1 == setup(m0)
              m2 == set_web_port(m1, p.val, FALSE)
              m3 == set_web_username(m2, cfg.user, FALSE)
              m4 == set_web_password(m3, cfg.password, salt, FALSE)
              m5 == set_bittorrent_interface(m4, cfg.iface, FALSE)
          IN save(m5)

----------------------------------------------------------------------------
(* Inputs of the model *)

T1 == <<"1">>
T2 == <<"2">>
TPercent == <<"5", "0", "%">>
TPadded == <<" ", "u">>
TEth == <<"e", "t", "h", "0">>
TWg == <<"w", "g", "0">>

\* Files the store is opened on: none, an empty one, one with padded and ":"
\* delimiters, a comment, a DEFAULT section in the middle and two options
\* that differ in case only, one holding a raw "%", and two malformed ones.
FileMixed ==
  [exists |-> TRUE,
   lines |-> <<SecLine("A"), OptLine("x", " = ", <<"1", " ">>), CommentLine,
               BlankLine, SecLine(DEFAULTSECT), OptLine("d", ": ", <<"9">>),
               SecLine("S"), OptLine("Port", "=", T1), OptLine("port", "=", T2)>>]

FilePercent ==
  [exists |-> TRUE,
   lines |-> <<SecLine("S"), OptLine("k", "=", TPercent),
               OptLine("Port", "=", T1), SecLine("B")>>]

FileDuplicate ==
  [exists |-> TRUE,
   lines |-> <<SecLine("S"), OptLine("k", "=", T1), OptLine("k", "=", T2)>>]

FileNoHeader ==
  [exists |-> TRUE, lines |-> <<OptLine("k", "=", T1), BareLine("junk")>>]

FileEmpty == [exists |-> TRUE, lines |-> <<>>]

InitialFiles ==
  {NoFile, FileEmpty, FileMixed, FilePercent, FileDuplicate, FileNoHeader}

SetSections == {"S", "C", DEFAULTSECT, ""}
SetOptions == {"Port", "port"}
SetValues == {T2, TPercent}

Ports == {8080}
Usernames == {<<"a">>, TPadded}
Passwords == {<<"p", "w">>, <<"a">>}
Interfaces == {TEth, <<"%">>}

\* Configuration snapshots the runtime delivers.
PortTexts == {<<"8", "0", "8", "0">>, <<"7", "0", "0", "0", "0">>, <<"a", "b", "c">>}
NoCfg == [port |-> <<>>, user |-> <<>>, password |-> <<>>, iface |-> <<>>]
InstallConfigs ==
  [port : PortTexts, user : Usernames, password : {<<"p", "w">>},
   iface : {TEth}]
ChangedConfigs ==
  [port : PortTexts, user : {<<"a">>}, password : {<<"p", "w">>},
   iface : {TWg, <<"%">>}]

\* Files an install event may find at CONFIG_PATH.
CharmInitialFiles == {NoFile, FilePercent}

----------------------------------------------------------------------------
(* The state machine *)

NoConf == [live |-> FALSE, doc |-> EmptyDoc]

Op(op) ==
  [op |-> op, sec |-> "", key |-> "", val |-> <<>>, n |-> 0, salt |-> <<>>,
   save |-> FALSE, cfg |-> NoCfg, res |-> "none"]

Push(tr, tag) == IF Len(tr) < 3 THEN Append(tr, tag) ELSE Append(Tail(tr), tag)

InitTag(f, exc) ==
  IF exc # "none" THEN "init:error"
  ELSE IF ~f.exists THEN "init:absent"
  ELSE IF f.lines = <<>> THEN "init:empty"
  ELSE "init:file"

Snapshot == [live |-> conf.live, doc |-> conf.doc, file |-> file]

Machine == [doc |-> conf.doc, file |-> file, exc |-> "none"]

\* What every method call on the object in hand does to the state.
Apply(m, op, tag) ==
  /\ conf' = [live |-> TRUE, doc |-> m.doc]
  /\ file' = m.file
  /\ prev' = Snapshot
  /\ last' = [op EXCEPT !.res = m.exc]
  /\ trail' = Push(trail, tag)
  /\ nops' = nops + 1
  /\ UNCHANGED installed

InitStore ==
  /\ file \in InitialFiles
  /\ conf = NoConf
  /\ prev = [live |-> FALSE, doc |-> EmptyDoc, file |-> file]
  /\ last = Op("none")
  /\ trail = <<>>
  /\ installed = [done |-> FALSE, file |-> NoFile]
  /\ nops = 0

\* conf = QBittorrentConfig(path); a constructor that raises leaves the
\* object in hand as it was.
Construct ==
  /\ nops < MaxOps
  /\ LET m == QBittorrentConfig(file)
     IN /\ conf' = IF m.exc = "none" THEN [live |-> TRUE, doc |-> m.doc] ELSE conf
        /\ last' = [Op("init") EXCEPT !.res = m.exc]
        /\ trail' = Push(trail, InitTag(file, m.exc))
  /\ prev' = Snapshot
  /\ nops' = nops + 1
  /\ UNCHANGED <<file, installed>>

Set(section, option, value) ==
  /\ nops < MaxOps /\ conf.live
  /\ Apply(set(Machine, section, option, value),
           [Op("set") EXCEPT !.sec = section, !.key = option, !.val = value],
           "set")

Setup ==
  /\ nops < MaxOps /\ conf.live
  /\ Apply(setup(Machine), Op("setup"), "setup")

Save ==
  /\ nops < MaxOps /\ conf.live
  /\ Apply(save(Machine), Op("save"), "save")

SetWebPort(port, saving) ==
  /\ nops < MaxOps /\ conf.live
  /\ Apply(set_web_port(Machine, port, saving),
           [Op("set_web_port") EXCEPT !.n = port, !.save = saving], "mutate")

SetWebUsername(username, saving) ==
  /\ nops < MaxOps /\ conf.live
  /\ Apply(set_web_username(Machine, username, saving),
           [Op("set_web_username") EXCEPT !.val = username, !.save = saving],
           "mutate")

SetWebPassword(password, salt, saving) ==
  /\ nops < MaxOps /\ conf.live
  /\ Apply(set_web_password(Machine, password, salt, saving),
           [Op("set_web_password") EXCEPT !.val = password, !.salt = salt,
                                          !.save = saving],
           "mutate")

SetBittorrentInterface(interface, saving) ==
  /\ nops < MaxOps /\ conf.live
  /\ Apply(set_bittorrent_interface(Machine, interface, saving),
           [Op("set_bittorrent_interface") EXCEPT !.val = interface,
                                                  !.save = saving],
           "mutate")

\* The generic store: load, set, save.
Next ==
  \/ Construct
  \/ Save
  \/ \E s \in SetSections, k \in SetOptions, v \in SetValues : Set(s, k, v)

Spec == InitStore /\ [][Next]_vars

\* The semantic setters on a store opened on a missing or an empty file.
FilePreferences ==
  [exists |-> TRUE,
   lines |-> <<SecLine("Preferences"),
               OptLine("WebUI\\Password_PBKDF2", "=", <<"o", "l", "d">>),
               OptLine("WebUI\\Port", "=", T1)>>]

InitSetters == InitStore /\ file \in {NoFile, FileEmpty, FilePreferences}

NextSetters ==
  \/ Construct
  \/ Save
  \/ Setup
  \/ \E p \in Ports, b \in BOOLEAN : SetWebPort(p, b)
  \/ \E u \in Usernames, b \in BOOLEAN : SetWebUsername(u, b)
  \/ \E pw \in Passwords, b \in BOOLEAN :
       \E salt \in token_bytes(salt_length) : SetWebPassword(pw, salt, b)
  \/ \E i \in Interfaces, b \in BOOLEAN : SetBittorrentInterface(i, b)

SpecSetters == InitSetters /\ [][NextSetters]_vars

\* The lifecycle events.  The handler's QBittorrentConfig is local to it.
InitCharm ==
  /\ file \in CharmInitialFiles
  /\ conf = NoConf
  /\ prev = [live |-> FALSE, doc |-> EmptyDoc, file |-> file]
  /\ last = Op("none")
  /\ trail = <<>>
  /\ installed = [done |-> FALSE, file |-> NoFile]
  /\ nops = 0

Event(m, op, tag) ==
  /\ file' = m.file
  /\ prev' = Snapshot
  /\ last' = [op EXCEPT !.res = m.exc]
  /\ trail' = Push(trail, tag)
  /\ nops' = nops + 1
  /\ UNCHANGED conf

InstallEvent(cfg, salt) ==
  /\ nops < MaxEvents
  /\ LET m == on_install(file, cfg, salt)
     IN /\ Event(m, [Op("install") EXCEPT !.cfg = cfg, !.salt = salt], "install")
        /\ installed' = IF m.exc = "none" THEN [done |-> TRUE, file |-> m.file]
                        ELSE installed

ConfigChangedEvent(cfg) ==
  /\ nops < MaxEvents
  /\ Event(on_config_changed(file, cfg), [Op("config_changed") EXCEPT !.cfg = cfg],
           "config_changed")
  /\ UNCHANGED installed

NextCharm ==
  \/ \E cfg \in InstallConfigs, salt \in token_bytes(salt_length) :
       InstallEvent(cfg, salt)
  \/ \E cfg \in ChangedConfigs : ConfigChangedEvent(cfg)

SpecCharm == InitCharm /\ [][NextCharm]_vars

----------------------------------------------------------------------------
(* Vocabulary of the properties *)

TTrue == <<"t", "r", "u", "e">>
TSrv == <<"/", "s", "r", "v">>

\* The five entries setup() is documented to write: <<section, key, value>>.
SetupEntries ==
  {<<"LegalNotice", "Accepted", TTrue>>,
   <<"Meta", "MigrationVersion", <<"3">>>>,
   <<"Preferences", "WebUI\\Address", <<"*">>>>,
   <<"BitTorrent", "Session\\AddExtensionToIncompleteFiles", TTrue>>,
   <<"BitTorrent", "Session\\DefaultSavePath", TSrv>>}

\* The entries of a document, the defaults under the name DEFAULT.
DocEntries(doc) ==
  {<<DEFAULTSECT, doc.defaults[i].k, doc.defaults[i].v>> :
       i \in 1..Len(doc.defaults)}
    \cup UNION {{<<doc.sections[j].name, doc.sections[j].items[i].k,
                   doc.sections[j].items[i].v>> :
                     i \in 1..Len(doc.sections[j].items)} :
                  j \in 1..Len(doc.sections)}

DocEntryCount(doc) ==
  Len(doc.defaults)
    + Cardinality(UNION {{<<j, i>> : i \in 1..Len(doc.sections[j].items)} :
                           j \in 1..Len(doc.sections)})

\* The header a line of a file stands under ("" before the first header).
HeaderOf(lines, i) ==
  IF \E j \in 1..(i - 1) : lines[j].t = "sec"
  THEN lines[CHOOSE j \in 1..(i - 1) :
               lines[j].t = "sec" /\ \A h \in (j + 1)..(i - 1) : lines[h].t # "sec"].name
  ELSE ""

OptionLines(f) == {i \in 1..Len(f.lines) : f.lines[i].t = "opt"}

\* The entries a file's text holds, values as written.
FileEntries(f) ==
  {<<HeaderOf(f.lines, i), f.lines[i].name, f.lines[i].val>> : i \in OptionLines(f)}

\* The lines of a file that give key in section.
LinesOf(f, section, key) ==
  {i \in OptionLines(f) : f.lines[i].name = key /\ HeaderOf(f.lines, i) = section}

\* The file holds exactly one line for key in section, and it reads key=value.
FileHolds(f, section, key, value) ==
  /\ Cardinality(LinesOf(f, section, key)) = 1
  /\ \A i \in LinesOf(f, section, key) : f.lines[i].val = value /\ f.lines[i].sep = "="

RECURSIVE DropLeadingBlank(_)
DropLeadingBlank(lines) ==
  IF lines # <<>> /\ Head(lines).t = "blank" THEN DropLeadingBlank(Tail(lines))
  ELSE lines

RECURSIVE DropTrailingBlank(_)
DropTrailingBlank(lines) ==
  IF lines # <<>> /\ lines[Len(lines)].t = "blank"
  THEN DropTrailingBlank(SubSeq(lines, 1, Len(lines) - 1))
  ELSE lines

\* read_text().strip(), on lines
TextStrip(lines) == DropTrailingBlank(DropLeadingBlank(lines))

\* EXPECTED_SETUP_CONFIG of the unit test
EXPECTED_SETUP_CONFIG ==
  <<SecLine("LegalNotice"), OptLine("Accepted", "=", TTrue), BlankLine,
    SecLine("Meta"), OptLine("MigrationVersion", "=", <<"3">>), BlankLine,
    SecLine("Preferences"), OptLine("WebUI\\Address", "=", <<"*">>)>>

\* The last three operations were these, in this order.
Did(a, b, c) == trail = <<a, b, c>>

\* The last two operations were these, in this order.
DidLast(a, b) ==
  Len(trail) >= 2 /\ trail[Len(trail) - 1] = a /\ trail[Len(trail)] = b

----------------------------------------------------------------------------
SectionPresent(doc, section) ==
  IF section = DEFAULTSECT THEN doc.defaults # <<>> ELSE has_section(doc, section)

ItemsOf(doc, section) ==
  IF section = DEFAULTSECT THEN doc.defaults
  ELSE IF has_section(doc, section) THEN SectionItems(doc, section)
  ELSE <<>>

KeyPresent(doc, section, key) == DictHas(ItemsOf(doc, section), key)

KeyCount(doc, section, key) ==
  Cardinality({i \in 1..Len(ItemsOf(doc, section)) : ItemsOf(doc, section)[i].k = key})

\* The names of the sections, in order, and the keys of one, in order.
SectionNames(doc) == [j \in 1..Len(doc.sections) |-> doc.sections[j].name]

KeysOf(doc, section) ==
  [i \in 1..Len(ItemsOf(doc, section)) |-> ItemsOf(doc, section)[i].k]

AllSections(doc) == {DEFAULTSECT} \cup {doc.sections[j].name : j \in 1..Len(doc.sections)}

NoDuplicateKeys(doc) ==
  \A sec \in AllSections(doc) :
    \A i, j \in 1..Len(ItemsOf(doc, sec)) :
      ItemsOf(doc, sec)[i].k = ItemsOf(doc, sec)[j].k => i = j

\* Every entry of the document but (section, key) is what it was in old.
OthersUntouched(old, new, section, key) ==
  \A sec \in AllSections(old) :
    \A i \in 1..Len(ItemsOf(old, sec)) :
      (sec # section \/ ItemsOf(old, sec)[i].k # key) =>
        /\ i <= Len(ItemsOf(new, sec))
        /\ ItemsOf(new, sec)[i] = ItemsOf(old, sec)[i]

\* The headers and keys of a serialized document, in order.
Outline(lines) ==
  LET idx == {i \in 1..Len(lines) : lines[i].t \in {"sec", "opt"}}
      nth(n) == CHOOSE i \in idx : Cardinality({j \in idx : j < i}) = n - 1
  IN [n \in 1..Cardinality(idx) |->
        <<lines[nth(n)].t, HeaderOf(lines, nth(n)), lines[nth(n)].name>>]

\* a is b with some elements left out.
RECURSIVE IsSubsequence(_, _)
IsSubsequence(a, b) ==
  IF a = <<>> THEN TRUE
  ELSE IF b = <<>> THEN FALSE
  ELSE IF Head(a) = Head(b) THEN IsSubsequence(Tail(a), Tail(b))
  ELSE IsSubsequence(a, Tail(b))

(* C3 as stated.  Overwrite in place: set(section, key, v) on a key that is  *)
(* already present succeeds and leaves exactly one entry for the key, with   *)
(* value v, at its old position; the sections and the keys of every section  *)
(* keep their number and order; and no call of set ever makes a duplicate.   *)
C3_OverwriteInPlace ==
  /\ conf.live => NoDuplicateKeys(conf.doc)
  /\ (last.op = "set" /\ KeyPresent(prev.doc, last.sec, last.key)) =>
       /\ last.res = "none"
       /\ KeyCount(conf.doc, last.sec, last.key) = 1
       /\ DictGet(ItemsOf(conf.doc, last.sec), last.key) = last.val
       /\ SectionNames(conf.doc) = SectionNames(prev.doc)
       /\ \A sec \in AllSections(prev.doc) : KeysOf(conf.doc, sec) = KeysOf(prev.doc, sec)
       /\ OthersUntouched(prev.doc, conf.doc, last.sec, last.key)

(* C4 as stated.  Insertion order: set(C, k, v) with C not yet in the        *)
(* document succeeds and appends section C, holding k alone, after the       *)
(* existing sections; set of a new key in an existing section appends it     *)
(* after that section's keys; either way the serialized output keeps every   *)
(* earlier section and key in its relative order.                            *)
C4_InsertionOrder ==
  /\ (last.op = "set" /\ ~SectionPresent(prev.doc, last.sec)) =>
       /\ last.res = "none"
       /\ ItemsOf(conf.doc, last.sec) = <<[k |-> last.key, v |-> last.val]>>
       /\ last.sec # DEFAULTSECT =>
            /\ SectionNames(conf.doc) = Append(SectionNames(prev.doc), last.sec)
            /\ conf.doc.defaults = prev.doc.defaults
       /\ OthersUntouched(prev.doc, conf.doc, last.sec, last.key)
  /\ (last.op = "set" /\ SectionPresent(prev.doc, last.sec)
        /\ ~KeyPresent(prev.doc, last.sec, last.key)) =>
       /\ last.res = "none"
       /\ ItemsOf(conf.doc, last.sec) =
            Append(ItemsOf(prev.doc, last.sec), [k |-> last.key, v |-> last.val])
       /\ SectionNames(conf.doc) = SectionNames(prev.doc)
       /\ OthersUntouched(prev.doc, conf.doc, last.sec, last.key)
  /\ last.op = "set" =>
       IsSubsequence(Outline(write(prev.doc)), Outline(write(conf.doc)))

\* Two option names that differ in letter case only.
CaseVariants(k1, k2) == k1 # k2 /\ lower_optionxform(k1) = lower_optionxform(k2)

OptionNames == {"Port", "port"}

LoadedTags == {"init:absent", "init:empty", "init:file"}

(* C6.  Round trip: a store loaded from a file X, saved with no mutation in  *)
(* between, and loaded again from what was saved, is the document the first  *)
(* load gave: the same sections, keys and values in the same order.          *)
C6_RoundTrip ==
  (Len(trail) = 3 /\ trail[1] \in LoadedTags /\ trail[2] = "save" /\ last.op = "init") =>
    /\ last.res = "none"
    /\ conf.doc = prev.doc

\* The round trip of the file with padded and ":" delimiters, a comment and a
\* DEFAULT section in the middle, which save() does not write back as it was.
C6_Witness ==
  /\ Did("init:file", "save", "init:file")
  /\ conf.doc.defaults # <<>>
  /\ Len(conf.doc.sections) = 2
  /\ file.lines # FileMixed.lines

(* C8.  Missing file: constructing the store on a path where no file exists  *)
(* raises nothing, gives a document with no section and no key and creates   *)
(* no file; save() right after creates the file, with empty content.         *)
C8_MissingFile ==
  /\ (last.op = "init" /\ ~prev.file.exists) =>
       /\ last.res = "none"
       /\ conf.live
       /\ conf.doc = EmptyDoc
       /\ ~file.exists
  /\ DidLast("init:absent", "save") =>
       /\ last.res = "none"
       /\ file.exists
       /\ file.lines = <<>>

C8_Witness ==
  /\ DidLast("init:absent", "save")
  /\ ~prev.file.exists
  /\ file = FileEmpty

\* The value of a base64 character.
B64Index(c) == CHOOSE n \in 0..63 : B64Alphabet[n + 1] = c

IsB64Text(t) ==
  /\ Len(t) % 4 = 0
  /\ \A i \in 1..Len(t) :
       \/ \E n \in 1..64 : B64Alphabet[n] = t[i]
       \/ t[i] = "=" /\ i >= Len(t) - 1 /\ \A j \in i..Len(t) : t[j] = "="

\* The bytes four base64 characters stand for.
DecodeQuad(q) ==
  LET a == B64Index(q[1])
      b == B64Index(q[2])
  IN IF q[3] = "=" THEN <<a * 4 + b \div 16>>
     ELSE IF q[4] = "="
     THEN <<a * 4 + b \div 16, (b % 16) * 16 + B64Index(q[3]) \div 4>>
     ELSE <<a * 4 + b \div 16, (b % 16) * 16 + B64Index(q[3]) \div 4,
            (B64Index(q[3]) % 4) * 64 + B64Index(q[4])>>

RECURSIVE B64Decode(_)
B64Decode(t) ==
  IF t = <<>> THEN <<>>
  ELSE DecodeQuad(SubSeq(t, 1, 4)) \o B64Decode(SubSeq(t, 5, Len(t)))

ByteArrayOpen == <<"@", "B", "y", "t", "e", "A", "r", "r", "a", "y", "(">>

\* The value reads @ByteArray(<base64 of salt>:<base64 of digest>).
IsByteArrayOf(value, salt, digest) ==
  /\ Len(value) > Len(ByteArrayOpen) + 2
  /\ SubSeq(value, 1, Len(ByteArrayOpen)) = ByteArrayOpen
  /\ value[Len(value)] = ")"
  /\ Cardinality({i \in 1..Len(value) : value[i] = ":"}) = 1
  /\ LET c == CHOOSE i \in 1..Len(value) : value[i] = ":"
         first == SubSeq(value, Len(ByteArrayOpen) + 1, c - 1)
         second == SubSeq(value, c + 1, Len(value) - 1)
     IN /\ IsB64Text(first) /\ IsB64Text(second)
        /\ B64Decode(first) = salt
        /\ B64Decode(second) = digest

PasswordKey == "WebUI\\Password_PBKDF2"

IndexOfKey(doc, section, key) ==
  CHOOSE i \in 1..Len(ItemsOf(doc, section)) : ItemsOf(doc, section)[i].k = key

(* C9.  Password field: the Preferences section never holds more than one    *)
(* WebUI\Password_PBKDF2 entry, and after set_web_password it holds exactly  *)
(* one, at the place of the previous one when there was one (the other keys  *)
(* stay where they were); its value is @ByteArray(<base64 salt>:<base64      *)
(* digest>), the salt being the 16 bytes drawn for this call and the digest  *)
(* the 64-byte PBKDF2-HMAC-SHA512 of this call's password with that salt and *)
(* 100000 iterations.                                                        *)
C9_PasswordField ==
  /\ conf.live => KeyCount(conf.doc, "Preferences", PasswordKey) <= 1
  /\ last.op = "set_web_password" =>
       /\ last.res = "none"
       /\ KeyCount(conf.doc, "Preferences", PasswordKey) = 1
       /\ Len(last.salt) = 16
       /\ Len(pbkdf2_hmac_sha512(encode(last.val), last.salt, 100000)) = 64
       /\ IsByteArrayOf(DictGet(ItemsOf(conf.doc, "Preferences"), PasswordKey),
                        last.salt,
                        pbkdf2_hmac_sha512(encode(last.val), last.salt, 100000))
       /\ KeyPresent(prev.doc, "Preferences", PasswordKey) =>
            /\ KeysOf(conf.doc, "Preferences") = KeysOf(prev.doc, "Preferences")
            /\ IndexOfKey(conf.doc, "Preferences", PasswordKey) =
                 IndexOfKey(prev.doc, "Preferences", PasswordKey)
       /\ OthersUntouched(prev.doc, conf.doc, "Preferences", PasswordKey)
       /\ last.save => FileHolds(file, "Preferences", PasswordKey,
                                 DictGet(ItemsOf(conf.doc, "Preferences"), PasswordKey))

\* A second call, with another salt, replaced the value the first one wrote,
\* which stood before another key of the section.
C9_Witness ==
  /\ DidLast("mutate", "mutate")
  /\ last.op = "set_web_password"
  /\ KeyPresent(prev.doc, "Preferences", PasswordKey)
  /\ IsByteArrayOf(DictGet(ItemsOf(prev.doc, "Preferences"), PasswordKey),
                   CHOOSE b \in token_bytes(16) : b # last.salt,
                   pbkdf2_hmac_sha512(encode(last.val),
                                      CHOOSE b \in token_bytes(16) : b # last.salt,
                                      100000))
  /\ DictGet(ItemsOf(prev.doc, "Preferences"), PasswordKey) #
       DictGet(ItemsOf(conf.doc, "Preferences"), PasswordKey)
  /\ KeyCount(conf.doc, "Preferences", PasswordKey) = 1

\* The text is a valid port: an integer in 1..65535.
ValidPortText(t) == ParseInt(t).ok /\ ParseInt(t).val >= 1 /\ ParseInt(t).val <= 65535

IsEvent == last.op \in {"install", "config_changed"}

PortKey == "WebUI\\Port"

UsernameKey == "WebUI\\Username"

(* C7 as stated.  A port that is not an integer in 1..65535 is rejected by   *)
(* the install and config-changed handlers with a validation error before    *)
(* set_web_port is called, the event leaves the document and the file as     *)
(* they were, and so every WebUI\Port the handlers write is the decimal      *)
(* string of an integer in 1..65535.                                         *)
C7_InvalidPortRejected ==
  /\ (IsEvent /\ ~ValidPortText(last.cfg.port)) =>
       /\ last.res = "ValueError"
       /\ file.lines = prev.file.lines
  /\ IsEvent =>
       \A i \in LinesOf(file, "Preferences", PortKey) :
         /\ ValidPortText(file.lines[i].val)
         /\ file.lines[i].val = IntToStr(ParseInt(file.lines[i].val).val)

\* The value the one line for key in section gives, as written.
RawOf(f, section, key) == f.lines[CHOOSE i \in LinesOf(f, section, key) : TRUE].val

\* The file as a completed config-changed event must leave it, but for the
\* username: the setup keys and the password digest as install wrote them,
\* the port and the interface of the event's snapshot.
MergedByConfigChanged ==
  /\ \A e \in SetupEntries :
       FileHolds(installed.file, e[1], e[2], e[3]) /\ FileHolds(file, e[1], e[2], e[3])
  /\ Cardinality(LinesOf(installed.file, "Preferences", PasswordKey)) = 1
  /\ FileHolds(file, "Preferences", PasswordKey,
               RawOf(installed.file, "Preferences", PasswordKey))
  /\ FileHolds(file, "Preferences", PortKey, IntToStr(ParseInt(last.cfg.port).val))
  /\ FileHolds(file, "BitTorrent", "Session\\Interface", last.cfg.iface)
  /\ FileHolds(file, "BitTorrent", "Session\\InterfaceName", last.cfg.iface)

CompletedConfigChanged ==
  installed.done /\ last.op = "config_changed" /\ last.res = "none"

(* C10 as stated.  After a completed install, a completed config-changed     *)
(* event leaves in the file the five setup keys, the WebUI\Username and the  *)
(* WebUI\Password_PBKDF2 exactly as install wrote them, and WebUI\Port,      *)
(* Session\Interface and Session\InterfaceName equal to the port and the     *)
(* torrent-interface of its snapshot.                                        *)
C10_NothingRewritten ==
  CompletedConfigChanged =>
    /\ MergedByConfigChanged
    /\ Cardinality(LinesOf(installed.file, "Preferences", UsernameKey)) = 1
    /\ FileHolds(file, "Preferences", UsernameKey,
                 RawOf(installed.file, "Preferences", UsernameKey))

(* C10, amended.  As stated, except for the username: config-changed loads   *)
(* and rewrites the whole file, so the WebUI\Username line holds the value   *)
(* a load of the file written at install gives, which is the installed       *)
(* username without its leading and trailing whitespace.                     *)
C10_MergedAsLoaded ==
  CompletedConfigChanged =>
    /\ MergedByConfigChanged
    /\ read(installed.file).exc = "none"
    /\ KeyCount(read(installed.file).doc, "Preferences", UsernameKey) = 1
    /\ FileHolds(file, "Preferences", UsernameKey,
                 DictGet(ItemsOf(read(installed.file).doc, "Preferences"), UsernameKey))
    /\ Cardinality(LinesOf(installed.file, "Preferences", UsernameKey)) = 1
    /\ FileHolds(file, "Preferences", UsernameKey,
                 Strip(RawOf(installed.file, "Preferences", UsernameKey)))

\* Install wrote a padded username and port 8080; a first config-changed
\* wrote port 70000 and a second, completed one wrote port 8080 again.
C10_Witness ==
  /\ Did("install", "config_changed", "config_changed")
  /\ CompletedConfigChanged
  /\ FileHolds(installed.file, "Preferences", UsernameKey, TPadded)
  /\ FileHolds(installed.file, "Preferences", PortKey, <<"8", "0", "8", "0">>)
  /\ FileHolds(prev.file, "Preferences", PortKey, <<"7", "0", "0", "0", "0">>)
  /\ FileHolds(file, "Preferences", PortKey, <<"8", "0", "8", "0">>)

====
